---- MODULE Spec2Model ----
(***************************************************************************)
(* Transfer-fee extension of the token-2022 program                        *)
(* (token/program-2022/src/extension/transfer_fee/processor.rs).           *)
(*                                                                         *)
(* One mint account carrying (or not) the TransferFeeConfig extension, a   *)
(* few holder accounts carrying (or not) the TransferFeeAmount extension,  *)
(* and the epoch of the Clock sysvar.  Every instruction handler is one    *)
(* action; `last` records the inputs and the result of the latest call.    *)
(***************************************************************************)
EXTENDS Integers, Sequences, FiniteSets, TLC

VARIABLES
    mint,        \* the mint buffer: base state and TransferFeeConfig extension
    accounts,    \* the holder buffers: base state and TransferFeeAmount extension
    epoch,       \* Clock::get()?.epoch
    last,        \* the latest call and its result
    lastSetFee,  \* the two slots as they were before the latest accepted SetTransferFee
    initEpoch,   \* the epoch of the accepted InitializeTransferFeeConfig, -1 before it
    history      \* the rates accepted so far, by the epoch of the call

vars == <<mint, accounts, epoch, last, lastSetFee, initEpoch, history>>

----------------------------------------------------------------------------
(* Bounds *)

\* u64::MAX of the withheld amounts, scaled down
MaxAmount == 2
\* u64::MAX of the epoch, scaled down
MaxEpoch == 2
\* longest list of holder references passed to one harvest
MaxBatch == 2
\* the same, for the harvests interleaved with the fee updates
MaxBatchLifecycle == 1

----------------------------------------------------------------------------
(* Program constants and input domains *)

MAX_FEE_BASIS_POINTS == 10000

MintKey == "mint"
OtherMint == "other_mint"
ProgramId == "token_2022"
OtherProgram == "system_program"
NoKey == "none"

\* the account references a harvest may list after the mint
Holders == {"h1", "h2", "h3"}
OptionalKeys == {NoKey, "alice"}

\* the (transfer_fee_basis_points, maximum_fee) pairs an instruction carries:
\* two acceptable ones, the ceiling included, and one above the ceiling
FeeInputs == {<<0, 1>>, <<MAX_FEE_BASIS_POINTS, 0>>, <<MAX_FEE_BASIS_POINTS + 1, 1>>}

\* the (authority key, is_signer) pairs SetTransferFee is called with
Callers == {<<"alice", TRUE>>, <<"alice", FALSE>>, <<"bob", TRUE>>}

\* TransferFee::default(), the content of a freshly allocated extension
ZeroFee == [epoch |-> 0, transfer_fee_basis_points |-> 0, maximum_fee |-> 0]

\* a mint buffer that was allocated and never written
EmptyMint ==
    [is_initialized |-> FALSE,
     has_extension |-> FALSE,
     transfer_fee_config_authority |-> NoKey,
     withdraw_withheld_authority |-> NoKey,
     withheld_amount |-> 0,
     older_transfer_fee |-> ZeroFee,
     newer_transfer_fee |-> ZeroFee]

\* the record of the latest call (its result, and for a harvest the references
\* it was given, the position the loop stopped at, the positions it logged and
\* the amount it moved into the mint), before any call was made
NoCall ==
    [op |-> "none", result |-> "none", batch |-> <<>>, pos |-> 0, log |-> <<>>,
     moved |-> 0]

\* no successful SetTransferFee so far
NoSetFee == [valid |-> FALSE, epoch |-> 0, older |-> ZeroFee, newer |-> ZeroFee]

\* no rate
NoRate == <<>>

\* the record of the accepted calls before any was made: the rate of the
\* initialization, and for each epoch the rate of the latest SetTransferFee
\* accepted in it
NoHistory == [init |-> NoRate, set |-> [e \in 0..MaxEpoch |-> NoRate]]

----------------------------------------------------------------------------
(* Pure helpers *)

RECURSIVE SumOver(_, _)
SumOver(S, f) ==
    IF S = {} THEN 0
    ELSE LET x == CHOOSE y \in S : TRUE IN f[x] + SumOver(S \ {x}, f)

Range(s) == {s[i] : i \in 1..Len(s)}

\* all sequences over S of length at most n
SeqsUpTo(S, n) == UNION {[1..k -> S] : k \in 0..n}

\* the selection rule used by the transfer routine
active(older, newer, e) == IF newer.epoch <= e THEN newer ELSE older

\* epoch.saturating_add(1)
next_epoch_wrapping(e) == (e + 1) % (MaxEpoch + 1)
next_epoch(e) == IF e + 1 > MaxEpoch THEN MaxEpoch ELSE e + 1

\* mint_withheld_amount.checked_add(account_withheld_amount); -1 stands for None
checked_add(a, b) == IF a + b > MaxAmount THEN -1 ELSE a + b

\* transfer_fee_basis_points > MAX_FEE_BASIS_POINTS
fee_exceeds_maximum_off_by_far(bp) == bp > MAX_FEE_BASIS_POINTS + 1
fee_exceeds_maximum(bp) == bp > MAX_FEE_BASIS_POINTS

\* StateWithExtensionsMut::<Mint>::unpack: a mint that is not in use does not
\* unpack
unpack(m) == IF m.is_initialized THEN "Ok" ELSE "UninitializedAccount"

\* Processor::validate_owner: the authority account is the expected key and is
\* signed for (by itself, or as a multisig by enough of the remaining accounts)
validate_owner(expected, authority, is_signer) ==
    IF expected # authority THEN "OwnerMismatch"
    ELSE IF ~is_signer THEN "MissingRequiredSignature"
    ELSE "Ok"

----------------------------------------------------------------------------
(* process_initialize_transfer_fee_config *)

\* StateWithExtensionsMut::<Mint>::unpack_uninitialized
unpack_uninitialized(m) == IF m.is_initialized THEN "AlreadyInUse" ELSE "Ok"

\* init_extension::<TransferFeeConfig>: allocates a zeroed extension, once
init_extension(m) ==
    IF m.has_extension
    THEN [result |-> "ExtensionAlreadyInitialized", mint |-> m]
    ELSE [result |-> "Ok", mint |-> [m EXCEPT !.has_extension = TRUE]]

\* a slip of line 39: the error of init_extension is dropped and an extension
\* that is already there is written again
initialize_transfer_fee_config_overwriting(m, config_authority, withdraw_authority, bp, max_fee, e) ==
    IF unpack_uninitialized(m) # "Ok"
    THEN [result |-> unpack_uninitialized(m), mint |-> m]
    ELSE LET written == [init_extension(m).mint EXCEPT
                            !.transfer_fee_config_authority = config_authority,
                            !.withdraw_withheld_authority = withdraw_authority,
                            !.withheld_amount = 0]
             transfer_fee == [epoch |-> e,
                              transfer_fee_basis_points |-> bp,
                              maximum_fee |-> max_fee]
         IN IF fee_exceeds_maximum(bp)
            THEN [result |-> "TransferFeeExceedsMaximum", mint |-> written]
            ELSE [result |-> "Ok",
                  mint |-> [written EXCEPT !.older_transfer_fee = transfer_fee,
                                           !.newer_transfer_fee = transfer_fee]]

\* a slip of lines 55-56: only the newer slot is written
initialize_transfer_fee_config_newer_only(m, config_authority, withdraw_authority, bp, max_fee, e) ==
    IF unpack_uninitialized(m) # "Ok"
    THEN [result |-> unpack_uninitialized(m), mint |-> m]
    ELSE IF init_extension(m).result # "Ok"
    THEN [result |-> init_extension(m).result, mint |-> m]
    ELSE LET written == [init_extension(m).mint EXCEPT
                            !.transfer_fee_config_authority = config_authority,
                            !.withdraw_withheld_authority = withdraw_authority,
                            !.withheld_amount = 0]
             transfer_fee == [epoch |-> e,
                              transfer_fee_basis_points |-> bp,
                              maximum_fee |-> max_fee]
         IN IF fee_exceeds_maximum(bp)
            THEN [result |-> "TransferFeeExceedsMaximum", mint |-> written]
            ELSE [result |-> "Ok",
                  mint |-> [written EXCEPT !.newer_transfer_fee = transfer_fee]]

\* the whole handler: result and the mint buffer it leaves behind
initialize_transfer_fee_config(m, config_authority, withdraw_authority, bp, max_fee, e) ==
    IF unpack_uninitialized(m) # "Ok"
    THEN [result |-> unpack_uninitialized(m), mint |-> m]
    ELSE IF init_extension(m).result # "Ok"
    THEN [result |-> init_extension(m).result, mint |-> m]
    ELSE LET written == [init_extension(m).mint EXCEPT
                            !.transfer_fee_config_authority = config_authority,
                            !.withdraw_withheld_authority = withdraw_authority,
                            !.withheld_amount = 0]
             transfer_fee == [epoch |-> e,
                              transfer_fee_basis_points |-> bp,
                              maximum_fee |-> max_fee]
         IN IF fee_exceeds_maximum(bp)
            THEN [result |-> "TransferFeeExceedsMaximum", mint |-> written]
            ELSE [result |-> "Ok",
                  mint |-> [written EXCEPT !.older_transfer_fee = transfer_fee,
                                           !.newer_transfer_fee = transfer_fee]]

InitializeTransferFeeConfig(ca, wa, bp, mf) ==
    \E r \in {initialize_transfer_fee_config(mint, ca, wa, bp, mf, epoch)} :
    /\ mint' = r.mint
    /\ last' = [NoCall EXCEPT !.op = "InitializeTransferFeeConfig", !.result = r.result]
    /\ initEpoch' = IF r.result = "Ok" THEN epoch ELSE initEpoch
    /\ history' = IF r.result = "Ok" THEN [history EXCEPT !.init = <<bp, mf>>]
                  ELSE history
    /\ UNCHANGED <<accounts, epoch, lastSetFee>>

process_initialize_transfer_fee_config ==
    \E ca \in OptionalKeys, wa \in OptionalKeys, fee \in FeeInputs :
        InitializeTransferFeeConfig(ca, wa, fee[1], fee[2])

----------------------------------------------------------------------------
(* process_set_transfer_fee *)

\* the rollover: whether the newer fee moves down into the older slot
newer_is_active_always(newer, e) == TRUE
newer_is_active_strictly(newer, e) == newer.epoch < e
newer_is_active(newer, e) == newer.epoch <= e

\* the epoch written into the newer slot
effective_epoch_now(e) == e
effective_epoch(e) == next_epoch(e)

\* a slip of lines 101-106: a pending update keeps its maximum_fee
rollover_merging(m, bp, max_fee, e) ==
    [m EXCEPT
        !.older_transfer_fee =
            IF newer_is_active(m.newer_transfer_fee, e)
            THEN m.newer_transfer_fee ELSE m.older_transfer_fee,
        !.newer_transfer_fee =
            [epoch |-> effective_epoch(e),
             transfer_fee_basis_points |-> bp,
             maximum_fee |-> IF newer_is_active(m.newer_transfer_fee, e)
                             THEN max_fee ELSE m.newer_transfer_fee.maximum_fee]]

\* a slip of lines 98-100: the newer fee moves down whether it is active or not
rollover_shifting_pending(m, bp, max_fee, e) ==
    [m EXCEPT
        !.older_transfer_fee = m.newer_transfer_fee,
        !.newer_transfer_fee =
            [epoch |-> effective_epoch(e),
             transfer_fee_basis_points |-> bp,
             maximum_fee |-> max_fee]]

\* a slip of lines 101-106: the extension is written from a fresh value and the
\* withheld amount is lost
rollover_clearing_withheld(m, bp, max_fee, e) ==
    [m EXCEPT
        !.withheld_amount = 0,
        !.older_transfer_fee =
            IF newer_is_active(m.newer_transfer_fee, e)
            THEN m.newer_transfer_fee ELSE m.older_transfer_fee,
        !.newer_transfer_fee =
            [epoch |-> effective_epoch(e),
             transfer_fee_basis_points |-> bp,
             maximum_fee |-> max_fee]]

\* lines 96-106: the two slots after an accepted update at epoch e
rollover(m, bp, max_fee, e) ==
    [m EXCEPT
        !.older_transfer_fee =
            IF newer_is_active(m.newer_transfer_fee, e)
            THEN m.newer_transfer_fee ELSE m.older_transfer_fee,
        !.newer_transfer_fee =
            [epoch |-> effective_epoch(e),
             transfer_fee_basis_points |-> bp,
             maximum_fee |-> max_fee]]

\* a slip of lines 76-89: the basis points are tested before the authority
set_transfer_fee_fee_first(m, authority, is_signer, bp, max_fee, e) ==
    IF unpack(m) # "Ok" THEN [result |-> unpack(m), mint |-> m]
    ELSE IF ~m.has_extension THEN [result |-> "InvalidAccountData", mint |-> m]
    ELSE IF fee_exceeds_maximum(bp)
    THEN [result |-> "TransferFeeExceedsMaximum", mint |-> m]
    ELSE IF m.transfer_fee_config_authority = NoKey
    THEN [result |-> "NoAuthorityExists", mint |-> m]
    ELSE IF validate_owner(m.transfer_fee_config_authority, authority, is_signer) # "Ok"
    THEN [result |-> validate_owner(m.transfer_fee_config_authority, authority, is_signer),
          mint |-> m]
    ELSE [result |-> "Ok", mint |-> rollover(m, bp, max_fee, e)]

\* a slip of lines 79-85: the result of validate_owner is dropped
set_transfer_fee_unvalidated(m, authority, is_signer, bp, max_fee, e) ==
    IF unpack(m) # "Ok" THEN [result |-> unpack(m), mint |-> m]
    ELSE IF ~m.has_extension THEN [result |-> "InvalidAccountData", mint |-> m]
    ELSE IF m.transfer_fee_config_authority = NoKey
    THEN [result |-> "NoAuthorityExists", mint |-> m]
    ELSE IF fee_exceeds_maximum(bp)
    THEN [result |-> "TransferFeeExceedsMaximum", mint |-> m]
    ELSE [result |-> "Ok", mint |-> rollover(m, bp, max_fee, e)]

\* the whole handler: result and the mint buffer it leaves behind
set_transfer_fee(m, authority, is_signer, bp, max_fee, e) ==
    IF unpack(m) # "Ok" THEN [result |-> unpack(m), mint |-> m]
    ELSE IF ~m.has_extension THEN [result |-> "InvalidAccountData", mint |-> m]
    ELSE IF m.transfer_fee_config_authority = NoKey
    THEN [result |-> "NoAuthorityExists", mint |-> m]
    ELSE IF validate_owner(m.transfer_fee_config_authority, authority, is_signer) # "Ok"
    THEN [result |-> validate_owner(m.transfer_fee_config_authority, authority, is_signer),
          mint |-> m]
    ELSE IF fee_exceeds_maximum(bp)
    THEN [result |-> "TransferFeeExceedsMaximum", mint |-> m]
    ELSE [result |-> "Ok", mint |-> rollover(m, bp, max_fee, e)]

SetTransferFee(authority, is_signer, bp, mf) ==
    \E r \in {set_transfer_fee(mint, authority, is_signer, bp, mf, epoch)} :
    /\ mint' = r.mint
    /\ last' = [NoCall EXCEPT !.op = "SetTransferFee", !.result = r.result]
    /\ lastSetFee' = IF r.result = "Ok"
                     THEN [valid |-> TRUE, epoch |-> epoch,
                           older |-> mint.older_transfer_fee,
                           newer |-> mint.newer_transfer_fee]
                     ELSE lastSetFee
    /\ history' = IF r.result = "Ok" THEN [history EXCEPT !.set[epoch] = <<bp, mf>>]
                  ELSE history
    /\ UNCHANGED <<accounts, epoch, initEpoch>>

process_set_transfer_fee ==
    \E caller \in Callers, fee \in FeeInputs :
        SetTransferFee(caller[1], caller[2], fee[1], fee[2])

----------------------------------------------------------------------------
(* harvest_from_account and process_harvest_withheld_tokens_to_mint *)

\* the four per-account checks, in the order of lines 116-125
account_check(mint_key, a) ==
    IF ~a.unpackable THEN "InvalidState"
    ELSE IF a.mint # mint_key THEN "MintMismatch"
    ELSE IF a.owner # ProgramId THEN "InvalidState"
    ELSE IF ~a.has_extension THEN "InvalidState"
    ELSE "Ok"

\* a slip of lines 126-132: the source account is zeroed before the checked addition
harvest_from_account_zero_first(mint_key, mint_withheld, token_key, a) ==
    IF token_key = mint_key
    THEN [result |-> "Panic", withheld_amount |-> mint_withheld, account |-> a]
    ELSE IF account_check(mint_key, a) # "Ok"
    THEN [result |-> account_check(mint_key, a),
          withheld_amount |-> mint_withheld, account |-> a]
    ELSE IF checked_add(mint_withheld, a.withheld_amount) = -1
    THEN [result |-> "Overflow", withheld_amount |-> mint_withheld,
          account |-> [a EXCEPT !.withheld_amount = 0]]
    ELSE [result |-> "Ok",
          withheld_amount |-> checked_add(mint_withheld, a.withheld_amount),
          account |-> [a EXCEPT !.withheld_amount = 0]]

\* a slip of lines 119-125: a failed check is reported after the amount was moved
harvest_from_account_unchecked(mint_key, mint_withheld, token_key, a) ==
    IF token_key = mint_key
    THEN [result |-> "Panic", withheld_amount |-> mint_withheld, account |-> a]
    ELSE IF checked_add(mint_withheld, a.withheld_amount) = -1
    THEN [result |-> "Overflow", withheld_amount |-> mint_withheld, account |-> a]
    ELSE [result |-> account_check(mint_key, a),
          withheld_amount |-> checked_add(mint_withheld, a.withheld_amount),
          account |-> [a EXCEPT !.withheld_amount = 0]]

\* one holder reference: the result, the mint's withheld amount and the holder
\* buffer afterwards.  The mint's data is mutably borrowed for the whole batch
\* (line 141), so borrowing it again at line 116 panics.
harvest_from_account(mint_key, mint_withheld, token_key, a) ==
    IF token_key = mint_key
    THEN [result |-> "Panic", withheld_amount |-> mint_withheld, account |-> a]
    ELSE IF account_check(mint_key, a) # "Ok"
    THEN [result |-> account_check(mint_key, a),
          withheld_amount |-> mint_withheld, account |-> a]
    ELSE IF checked_add(mint_withheld, a.withheld_amount) = -1
    THEN [result |-> "Overflow", withheld_amount |-> mint_withheld, account |-> a]
    ELSE [result |-> "Ok",
          withheld_amount |-> checked_add(mint_withheld, a.withheld_amount),
          account |-> [a EXCEPT !.withheld_amount = 0]]

\* the holder buffers once harvest_from_account has released its borrow
written_back(accts, h, a) == [accts EXCEPT ![h] = a]

\* line 148 returns on Overflow; a panic ends the program
is_fatal(result) == result \in {"Overflow", "Panic"}

\* the loop of lines 145-154 from position i on; the other errors are logged
\* with the position of the reference (line 150)
RECURSIVE harvest_loop(_, _, _, _, _)
harvest_loop(w, accts, batch, i, log) ==
    IF i > Len(batch)
    THEN [result |-> "Ok", withheld_amount |-> w, accounts |-> accts,
          pos |-> i, log |-> log]
    ELSE LET r == harvest_from_account(MintKey, w, accts[batch[i]].key,
                                       accts[batch[i]])
         IN IF is_fatal(r.result)
            THEN [result |-> r.result, withheld_amount |-> r.withheld_amount,
                  accounts |-> written_back(accts, batch[i], r.account),
                  pos |-> i, log |-> log]
            ELSE harvest_loop(r.withheld_amount,
                              written_back(accts, batch[i], r.account), batch, i + 1,
                              IF r.result = "Ok" THEN log ELSE Append(log, i))

\* the whole handler
harvest_withheld_tokens_to_mint(m, accts, batch) ==
    IF unpack(m) # "Ok"
    THEN [result |-> unpack(m), withheld_amount |-> m.withheld_amount,
          accounts |-> accts, pos |-> 0, log |-> <<>>]
    ELSE IF ~m.has_extension
    THEN [result |-> "InvalidAccountData", withheld_amount |-> m.withheld_amount,
          accounts |-> accts, pos |-> 0, log |-> <<>>]
    ELSE harvest_loop(m.withheld_amount, accts, batch, 1, <<>>)

Harvest(batch) ==
    \E r \in {harvest_withheld_tokens_to_mint(mint, accounts, batch)} :
    /\ mint' = [mint EXCEPT !.withheld_amount = r.withheld_amount]
    /\ accounts' = r.accounts
    /\ last' = [NoCall EXCEPT !.op = "HarvestWithheldTokensToMint",
                              !.result = r.result, !.batch = batch,
                              !.pos = r.pos, !.log = r.log,
                              !.moved = r.withheld_amount - mint.withheld_amount]
    /\ UNCHANGED <<epoch, lastSetFee, initEpoch, history>>

Batches == SeqsUpTo(Holders, MaxBatch)
LifecycleBatches == SeqsUpTo(Holders, MaxBatchLifecycle)

process_harvest_withheld_tokens_to_mint ==
    \E batch \in Batches : Harvest(batch)

process_harvest_withheld_tokens_to_mint_short ==
    \E batch \in LifecycleBatches : Harvest(batch)

----------------------------------------------------------------------------
(* The two withdrawals of process_instruction *)

\* a slip of line 187: the withdrawal hands the withheld amount out
withdraw_withheld_tokens_from_mint_draining(m) ==
    [result |-> "Ok", mint |-> [m EXCEPT !.withheld_amount = 0]]

\* line 187, unimplemented!(): the program panics with "not implemented"
\* before it touches an account
withdraw_withheld_tokens_from_mint(m) ==
    [result |-> "NotImplemented", mint |-> m]

\* line 190, unimplemented!() again
withdraw_withheld_tokens_from_accounts(m, accts) ==
    [result |-> "NotImplemented", mint |-> m, accounts |-> accts]

WithdrawWithheldTokensFromMint ==
    LET r == withdraw_withheld_tokens_from_mint(mint) IN
    /\ mint' = r.mint
    /\ last' = [NoCall EXCEPT !.op = "WithdrawWithheldTokensFromMint",
                              !.result = r.result]
    /\ UNCHANGED <<accounts, epoch, lastSetFee, initEpoch, history>>

WithdrawWithheldTokensFromAccounts ==
    LET r == withdraw_withheld_tokens_from_accounts(mint, accounts) IN
    /\ mint' = r.mint
    /\ accounts' = r.accounts
    /\ last' = [NoCall EXCEPT !.op = "WithdrawWithheldTokensFromAccounts",
                              !.result = r.result]
    /\ UNCHANGED <<epoch, lastSetFee, initEpoch, history>>

----------------------------------------------------------------------------
(* The environment: the clock, mint initialization, and fee-bearing transfers *)

\* Clock::get()?.epoch is non-decreasing
AdvanceEpoch ==
    /\ epoch < MaxEpoch
    /\ epoch' = epoch + 1
    /\ last' = [NoCall EXCEPT !.op = "AdvanceEpoch"]
    /\ UNCHANGED <<mint, accounts, lastSetFee, initEpoch, history>>

\* InitializeMint puts the mint in use, with or without the extension
InitializeMint ==
    /\ ~mint.is_initialized
    /\ mint' = [mint EXCEPT !.is_initialized = TRUE]
    /\ last' = [NoCall EXCEPT !.op = "InitializeMint", !.result = "Ok"]
    /\ UNCHANGED <<accounts, epoch, lastSetFee, initEpoch, history>>

\* TransferCheckedWithFee withholds a fee on a holder account of this mint
TransferCheckedWithFee ==
    \E h \in Holders :
        /\ mint.is_initialized /\ mint.has_extension
        /\ account_check(MintKey, accounts[h]) = "Ok"
        /\ accounts[h].withheld_amount < MaxAmount
        /\ accounts' = [accounts EXCEPT ![h].withheld_amount = @ + 1]
        /\ last' = [NoCall EXCEPT !.op = "TransferCheckedWithFee", !.result = "Ok"]
        /\ UNCHANGED <<mint, epoch, lastSetFee, initEpoch, history>>

----------------------------------------------------------------------------
(* Holder accounts *)

\* the accounts a reference h can stand for: 1 harvestable, 2 of another mint,
\* 3 owned by another program, 4 without the extension, 5 not unpackable,
\* 6 the mint account itself (the same AccountInfo data as the first account).
\* An account the transfer routine of this mint never credits holds 1, or
\* nothing where it has no extension.
HolderShape(h, kind, amount) ==
    [key |-> IF kind = 6 THEN MintKey ELSE h,
     unpackable |-> kind \notin {5, 6},
     mint |-> IF kind = 2 THEN OtherMint ELSE MintKey,
     owner |-> IF kind = 3 THEN OtherProgram ELSE ProgramId,
     has_extension |-> kind \notin {4, 5, 6},
     withheld_amount |-> CASE kind = 1 -> amount
                           [] kind \in {2, 3} -> 1
                           [] OTHER -> 0]

Kinds == 1..6

\* the order of the references is the caller's, so the shapes are taken up to
\* a permutation of the holders
HolderConfigs ==
    {[h \in Holders |-> HolderShape(h, k[h], a[h])] :
        k \in {f \in [Holders -> Kinds] : f["h1"] <= f["h2"] /\ f["h2"] <= f["h3"]},
        a \in [Holders -> 0..MaxAmount]}

----------------------------------------------------------------------------
(* Specifications *)

\* the whole life of a mint, with one harvestable holder, one holder of another
\* mint and one reference to the mint account itself
Init ==
    /\ mint = EmptyMint
    /\ accounts = [h \in Holders |->
                     HolderShape(h, CASE h = "h1" -> 1 [] h = "h2" -> 2 [] OTHER -> 6, 1)]
    /\ epoch = 0
    /\ last = NoCall
    /\ lastSetFee = NoSetFee
    /\ initEpoch = -1
    /\ history = NoHistory

Next ==
    \/ process_initialize_transfer_fee_config
    \/ InitializeMint
    \/ process_set_transfer_fee
    \/ process_harvest_withheld_tokens_to_mint_short
    \/ WithdrawWithheldTokensFromMint
    \/ WithdrawWithheldTokensFromAccounts
    \/ AdvanceEpoch

Spec == Init /\ [][Next]_vars

\* harvesting alone, from a mint whose fee config is open, over every mix of
\* holder shapes and amounts
InitHarvest ==
    /\ \E w \in 0..MaxAmount :
          mint = [EmptyMint EXCEPT !.is_initialized = TRUE, !.has_extension = TRUE,
                                   !.withheld_amount = w]
    /\ accounts \in HolderConfigs
    /\ epoch = 0
    /\ last = NoCall
    /\ lastSetFee = NoSetFee
    /\ initEpoch = -1
    /\ history = NoHistory

NextHarvest ==
    \/ process_harvest_withheld_tokens_to_mint
    \/ TransferCheckedWithFee

SpecHarvest == InitHarvest /\ [][NextHarvest]_vars

----------------------------------------------------------------------------
(* Vocabulary of the claims *)

\* the holder passes the four checks of harvest_from_account
Harvestable(h) == account_check(MintKey, accounts[h]) = "Ok"

\* the valid holder accounts a batch lists
ValidIn(batch) == {h \in Range(batch) : Harvestable(h)}

\* the holders' withheld amounts before and after a step
Withheld == [h \in Holders |-> accounts[h].withheld_amount]
WithheldAfter == [h \in Holders |-> accounts'[h].withheld_amount]

HarvestCalled == last'.op = "HarvestWithheldTokensToMint"
HarvestDone == last.op = "HarvestWithheldTokensToMint"

----------------------------------------------------------------------------
(* Harvest *)

\* C1 (as claimed): a harvest over a batch in which no addition overflows
\* raises the mint's withheld amount by the sum of the amounts the valid
\* holders of the batch held before it, and leaves each of them at 0.
HarvestConservation ==
    [][HarvestCalled =>
        LET batch == last'.batch IN
            Harvest(batch) /\ last'.result # "Overflow" =>
                /\ mint'.withheld_amount - mint.withheld_amount
                      = SumOver(ValidIn(batch), Withheld)
                /\ \A h \in ValidIn(batch) : accounts'[h].withheld_amount = 0]_vars

\* C2 (as claimed): in a batch with no overflow, a holder that fails a check is
\* left as it was and adds nothing to the mint, and every valid holder of the
\* batch is harvested wherever it stands among the failing references.
HarvestIsolation ==
    [][HarvestCalled =>
        LET batch == last'.batch IN
            Harvest(batch) /\ last'.result # "Overflow" =>
                /\ \A h \in Range(batch) \ ValidIn(batch) :
                      accounts'[h] = accounts[h]
                /\ \A h \in ValidIn(batch) :
                      accounts'[h] = [accounts[h] EXCEPT !.withheld_amount = 0]
                /\ mint' = [mint EXCEPT !.withheld_amount =
                                @ + SumOver(ValidIn(batch), Withheld)]]_vars

HarvestAtomicity ==
    [][HarvestCalled =>
        LET batch == last'.batch IN
            Harvest(batch) =>
                /\ \A h \in Holders :
                      \/ accounts'[h] = accounts[h]
                      \/ /\ Harvestable(h)
                         /\ accounts'[h] = [accounts[h] EXCEPT !.withheld_amount = 0]
                /\ mint'.withheld_amount - mint.withheld_amount
                      = SumOver({h \in Holders : accounts'[h] # accounts[h]}, Withheld)
                /\ mint'.withheld_amount + SumOver(Holders, WithheldAfter)
                      = mint.withheld_amount + SumOver(Holders, Withheld)
                /\ mint' = [mint EXCEPT !.withheld_amount = mint'.withheld_amount]]_vars

\* C4, its case: a harvest that skipped a holder with an amount of its own
\* and then moved the amount of the next one
HarvestAtomicityReached ==
    /\ HarvestDone
    /\ last.result = "Ok"
    /\ last.log = <<1>>
    /\ last.moved > 0
    /\ ~Harvestable(last.batch[1]) /\ accounts[last.batch[1]].withheld_amount > 0
    /\ Harvestable(last.batch[2]) /\ accounts[last.batch[2]].withheld_amount = 0

----------------------------------------------------------------------------
(* Fee schedule *)

SetFeeCalled == last'.op = "SetTransferFee"
InitializeCalled == last'.op = "InitializeTransferFeeConfig"
SetFeeAccepted == last.op = "SetTransferFee" /\ last.result = "Ok"

\* the rate a slot carries, without the epoch it is tagged with
Rate(fee) == <<fee.transfer_fee_basis_points, fee.maximum_fee>>

\* the rate selected at epoch e, before and after a step
ActiveBefore(e) == Rate(active(mint.older_transfer_fee, mint.newer_transfer_fee, e))
ActiveAfter(e) == Rate(active(mint'.older_transfer_fee, mint'.newer_transfer_fee, e))

\* what an accepted SetTransferFee(bp, mf) at the current epoch must leave: the
\* rate of the current epoch as it was, and the supplied rate in the newer slot,
\* selected at the epochs after the current one and at no other
TakesEffectNextEpoch(bp, mf) ==
    /\ ActiveAfter(epoch) = ActiveBefore(epoch)
    /\ Rate(mint'.newer_transfer_fee) = <<bp, mf>>
    /\ \A e \in 0..MaxEpoch : (mint'.newer_transfer_fee.epoch <= e) <=> (e > epoch)

\* C5 (as claimed): at every epoch, the maximum included, an accepted
\* SetTransferFee leaves the rate of the current epoch as it was and makes the
\* supplied rate the selected one exactly at the later epochs.
UpdateNeverRetroactive ==
    [][SetFeeCalled /\ last'.result = "Ok" =>
        \A caller \in Callers, fee \in FeeInputs :
            SetTransferFee(caller[1], caller[2], fee[1], fee[2]) =>
                TakesEffectNextEpoch(fee[1], fee[2])]_vars

\* C5 (amended): the same at every epoch below the maximum of the epoch type;
\* at the maximum the increment saturates and the update is selected at once.
UpdateTakesEffectNextEpoch ==
    [][SetFeeCalled /\ last'.result = "Ok" /\ epoch < MaxEpoch =>
        \A caller \in Callers, fee \in FeeInputs :
            SetTransferFee(caller[1], caller[2], fee[1], fee[2]) =>
                TakesEffectNextEpoch(fee[1], fee[2])]_vars

\* C5, its case: an update accepted below the maximum epoch is pending behind
\* a different rate
UpdatePendingReached ==
    /\ SetFeeAccepted
    /\ epoch < MaxEpoch
    /\ mint.newer_transfer_fee.epoch = epoch + 1
    /\ Rate(mint.older_transfer_fee) # Rate(mint.newer_transfer_fee)
    /\ ActiveBefore(epoch) = Rate(mint.older_transfer_fee)

\* C6: the older slot never carries a later epoch than the newer slot.
ScheduleMonotonic ==
    mint.has_extension =>
        mint.older_transfer_fee.epoch <= mint.newer_transfer_fee.epoch

\* C6, its case: after updates in different epochs the two slots carry
\* different epochs, the older one that of an earlier update
ScheduleMonotonicReached ==
    /\ SetFeeAccepted
    /\ initEpoch >= 0
    /\ mint.older_transfer_fee.epoch > initEpoch
    /\ mint.older_transfer_fee.epoch < mint.newer_transfer_fee.epoch

\* C7 (as claimed): an accepted SetTransferFee leaves the rate selected at
\* every epoch already passed (from the initialization epoch up to, not
\* including, the current one) as it was.
PastEpochsUnchanged ==
    [][SetFeeCalled /\ last'.result = "Ok" /\ initEpoch >= 0 =>
        \A e \in initEpoch..(epoch - 1) : ActiveAfter(e) = ActiveBefore(e)]_vars

\* C7 (amended): the rate selected at a passed epoch is left as it was when the
\* newer rate of before the call was already selected at that epoch, or is
\* still pending at the call; a passed epoch before the newer rate's own epoch
\* takes that newer rate once it moves into the older slot.
PastEpochsUnchangedSinceNewer ==
    [][SetFeeCalled /\ last'.result = "Ok" /\ initEpoch >= 0 =>
        \A e \in initEpoch..(epoch - 1) :
            \/ /\ \/ mint.newer_transfer_fee.epoch <= e
                  \/ mint.newer_transfer_fee.epoch > epoch
               /\ ActiveAfter(e) = ActiveBefore(e)
            \/ /\ mint.newer_transfer_fee.epoch > e
               /\ mint.newer_transfer_fee.epoch <= epoch
               /\ ActiveAfter(e) = Rate(mint.newer_transfer_fee)]_vars

\* C7, its case: an update was accepted after epochs had passed under the
\* newer rate of before the call
PastEpochsReached ==
    /\ SetFeeAccepted
    /\ initEpoch >= 0
    /\ lastSetFee.epoch = epoch
    /\ \E e \in initEpoch..(epoch - 1) :
          /\ lastSetFee.newer.epoch <= e
          /\ Rate(lastSetFee.older) # Rate(lastSetFee.newer)
          /\ Rate(mint.newer_transfer_fee) # Rate(lastSetFee.newer)
          /\ ActiveBefore(e) = Rate(lastSetFee.newer)

\* C8: a SetTransferFee accepted while the update of the previous accepted
\* SetTransferFee is still pending leaves both slots as the second call alone
\* would have left them, from the slots of before the first call.
RolloverCorrectness ==
    [][/\ SetFeeCalled /\ last'.result = "Ok"
       /\ lastSetFee.valid
       /\ epoch < mint.newer_transfer_fee.epoch
       =>
        \A caller \in Callers, fee \in FeeInputs :
            SetTransferFee(caller[1], caller[2], fee[1], fee[2]) =>
                LET before == [mint EXCEPT !.older_transfer_fee = lastSetFee.older,
                                           !.newer_transfer_fee = lastSetFee.newer]
                    alone == set_transfer_fee(before, caller[1], caller[2],
                                              fee[1], fee[2], epoch)
                IN /\ lastSetFee.epoch = epoch
                   /\ alone.result = "Ok"
                   /\ mint' = alone.mint]_vars

\* C8, its case: the latest accepted call replaced a pending update that
\* carried another rate, the older slot holding an earlier update
RolloverReached ==
    /\ SetFeeAccepted
    /\ lastSetFee.valid
    /\ lastSetFee.epoch = epoch
    /\ lastSetFee.newer.epoch > epoch
    /\ Rate(lastSetFee.newer) # Rate(mint.newer_transfer_fee)
    /\ mint.older_transfer_fee = lastSetFee.older
    /\ mint.older_transfer_fee.epoch > 0

\* C9 (as claimed): a call of InitializeTransferFeeConfig or SetTransferFee
\* with basis points above the ceiling fails and leaves the mint as it was.
FeeRejectionLeavesNoTrace ==
    [][\A fee \in {f \in FeeInputs : f[1] > MAX_FEE_BASIS_POINTS} :
        /\ \A ca \in OptionalKeys, wa \in OptionalKeys :
              InitializeTransferFeeConfig(ca, wa, fee[1], fee[2]) =>
                  last'.result # "Ok" /\ mint' = mint
        /\ \A caller \in Callers :
              SetTransferFee(caller[1], caller[2], fee[1], fee[2]) =>
                  last'.result # "Ok" /\ mint' = mint]_vars

\* C10: both slots of a mint that carries the extension hold basis points at
\* or below the ceiling.
FeeBound ==
    mint.has_extension =>
        /\ mint.older_transfer_fee.transfer_fee_basis_points <= MAX_FEE_BASIS_POINTS
        /\ mint.newer_transfer_fee.transfer_fee_basis_points <= MAX_FEE_BASIS_POINTS

\* C10, its case: an update above the ceiling was refused while both slots
\* hold the ceiling itself
FeeBoundReached ==
    /\ last.op = "SetTransferFee"
    /\ last.result = "TransferFeeExceedsMaximum"
    /\ mint.older_transfer_fee.transfer_fee_basis_points = MAX_FEE_BASIS_POINTS
    /\ mint.newer_transfer_fee.transfer_fee_basis_points = MAX_FEE_BASIS_POINTS
    /\ mint.withheld_amount > 0

----------------------------------------------------------------------------
(* Authorities *)

\* the two slots of a mint buffer
Schedule(m) == <<m.older_transfer_fee, m.newer_transfer_fee>>

\* the fee config was initialized with no config authority
Frozen == initEpoch >= 0 /\ mint.transfer_fee_config_authority = NoKey

\* the errors of validate_owner
AuthorityMismatch == {"OwnerMismatch", "MissingRequiredSignature"}

\* C11 (as claimed): once the fee config is initialized with no config
\* authority, every SetTransferFee fails with NoAuthorityExists, whoever calls
\* with whatever fee at whatever epoch, and the two slots never change again.
FreezeCheck ==
    [][Frozen =>
        /\ SetFeeCalled => last'.result = "NoAuthorityExists"
        /\ Schedule(mint') = Schedule(mint)
        /\ mint'.transfer_fee_config_authority = NoKey]_vars

\* C11 (amended): the same once the mint is in use; before that the mint does
\* not unpack and SetTransferFee fails on that, the slots frozen all the same.
FreezeCheckInUse ==
    [][Frozen =>
        /\ SetFeeCalled =>
              last'.result = IF mint.is_initialized THEN "NoAuthorityExists"
                             ELSE "UninitializedAccount"
        /\ Schedule(mint') = Schedule(mint)
        /\ mint'.transfer_fee_config_authority = NoKey]_vars

\* C11, its case: a SetTransferFee refused for want of an authority, in a later
\* epoch than the initialization, on a mint in use that has a withdraw authority
FreezeReached ==
    /\ Frozen
    /\ mint.is_initialized
    /\ mint.withdraw_withheld_authority # NoKey
    /\ epoch > initEpoch
    /\ last.op = "SetTransferFee"
    /\ last.result = "NoAuthorityExists"

\* C12 (as claimed): on a mint whose fee config has a config authority, a
\* SetTransferFee whose authority account validate_owner refuses fails with
\* that refusal and leaves the mint and the holders as they were; and after
\* the initialization the two slots change only in a SetTransferFee whose
\* authority account validate_owner accepted.
SetFeeAuthorityGating ==
    [][/\ SetFeeCalled => \A caller \in Callers, fee \in FeeInputs :
             /\ mint.has_extension
             /\ mint.transfer_fee_config_authority # NoKey
             /\ validate_owner(mint.transfer_fee_config_authority,
                               caller[1], caller[2]) # "Ok"
             /\ SetTransferFee(caller[1], caller[2], fee[1], fee[2])
             => /\ last'.result \in AuthorityMismatch
                /\ mint' = mint
                /\ accounts' = accounts
       /\ initEpoch >= 0 /\ Schedule(mint') # Schedule(mint) =>
             \E caller \in Callers, fee \in FeeInputs :
                 /\ SetTransferFee(caller[1], caller[2], fee[1], fee[2])
                 /\ validate_owner(mint.transfer_fee_config_authority,
                                   caller[1], caller[2]) = "Ok"]_vars

\* C12 (amended): the same for a mint in use; a mint that is not in use does
\* not unpack, and the call fails on that before the authority is looked at,
\* the mint and the holders as they were.
SetFeeAuthorityGatingInUse ==
    [][/\ SetFeeCalled => \A caller \in Callers, fee \in FeeInputs :
             /\ mint.has_extension
             /\ mint.transfer_fee_config_authority # NoKey
             /\ validate_owner(mint.transfer_fee_config_authority,
                               caller[1], caller[2]) # "Ok"
             /\ SetTransferFee(caller[1], caller[2], fee[1], fee[2])
             => /\ last'.result \in IF mint.is_initialized THEN AuthorityMismatch
                                     ELSE {"UninitializedAccount"}
                /\ mint' = mint
                /\ accounts' = accounts
       /\ initEpoch >= 0 /\ Schedule(mint') # Schedule(mint) =>
             \E caller \in Callers, fee \in FeeInputs :
                 /\ SetTransferFee(caller[1], caller[2], fee[1], fee[2])
                 /\ mint.is_initialized
                 /\ validate_owner(mint.transfer_fee_config_authority,
                                   caller[1], caller[2]) = "Ok"]_vars

\* C12, its case: a SetTransferFee refused by validate_owner after an earlier
\* one was accepted and is still pending
SetFeeAuthorityGatingReached ==
    /\ last.op = "SetTransferFee"
    /\ last.result \in AuthorityMismatch
    /\ mint.is_initialized
    /\ lastSetFee.valid
    /\ mint.newer_transfer_fee.epoch > epoch
    /\ mint.withheld_amount > 0

----------------------------------------------------------------------------
(* Initialization *)

\* C13: every InitializeTransferFeeConfig on a mint that carries the extension
\* or is in use fails, whatever parameters it was called with, and leaves the
\* mint and the holders as they were.
InitializationOnce ==
    [][InitializeCalled /\ (mint.has_extension \/ mint.is_initialized) =>
          /\ last'.result \in {"AlreadyInUse", "ExtensionAlreadyInitialized"}
          /\ mint' = mint
          /\ accounts' = accounts]_vars

\* C13, its case: a second initialization was refused in a later epoch, on a
\* fee config that holds an authority and the ceiling rate
InitializationOnceReached ==
    /\ last.op = "InitializeTransferFeeConfig"
    /\ last.result = "ExtensionAlreadyInitialized"
    /\ initEpoch >= 0
    /\ epoch > initEpoch
    /\ mint.transfer_fee_config_authority # NoKey
    /\ mint.newer_transfer_fee.transfer_fee_basis_points = MAX_FEE_BASIS_POINTS

\* C14: an accepted InitializeTransferFeeConfig at epoch E writes the triple
\* {E, basis points, maximum fee} into both slots, stores the two authorities
\* it was given and a withheld amount of 0, so the supplied rate is the one
\* selected at every epoch; and the slots stay so until a SetTransferFee is
\* accepted.
InitializationResult ==
    [][/\ InitializeCalled /\ last'.result = "Ok" =>
          \A ca \in OptionalKeys, wa \in OptionalKeys, fee \in FeeInputs :
             InitializeTransferFeeConfig(ca, wa, fee[1], fee[2])
             => /\ mint' = [is_initialized |-> FALSE,
                            has_extension |-> TRUE,
                            transfer_fee_config_authority |-> ca,
                            withdraw_withheld_authority |-> wa,
                            withheld_amount |-> 0,
                            older_transfer_fee |->
                                [epoch |-> epoch, transfer_fee_basis_points |-> fee[1],
                                 maximum_fee |-> fee[2]],
                            newer_transfer_fee |->
                                [epoch |-> epoch, transfer_fee_basis_points |-> fee[1],
                                 maximum_fee |-> fee[2]]]
                /\ \A e \in 0..MaxEpoch : ActiveAfter(e) = <<fee[1], fee[2]>>
       /\ /\ initEpoch >= 0
          /\ ~lastSetFee.valid
          /\ ~(SetFeeCalled /\ last'.result = "Ok")
          => /\ Schedule(mint') = Schedule(mint)
             /\ mint.older_transfer_fee = mint.newer_transfer_fee
             /\ mint.older_transfer_fee.epoch = initEpoch]_vars

\* C14, its case: epochs after an initialization above epoch 0, no update
\* accepted yet, the mint in use
InitializationResultReached ==
    /\ initEpoch > 0
    /\ epoch > initEpoch
    /\ ~lastSetFee.valid
    /\ mint.is_initialized
    /\ mint.older_transfer_fee.epoch = initEpoch
    /\ mint.transfer_fee_config_authority # NoKey
    /\ mint.older_transfer_fee.transfer_fee_basis_points = MAX_FEE_BASIS_POINTS

----------------------------------------------------------------------------
(* Withdrawals *)

WithdrawOps == {"WithdrawWithheldTokensFromMint", "WithdrawWithheldTokensFromAccounts"}

\* C15: each of the two withdrawals ends in the not-implemented failure and
\* leaves the mint and the holders as they were, and no other instruction ever
\* ends in that failure.
WithdrawalsNotImplemented ==
    [][/\ last'.op \in WithdrawOps =>
             /\ last'.result = "NotImplemented"
             /\ mint' = mint
             /\ accounts' = accounts
       /\ last'.result = "NotImplemented" => last'.op \in WithdrawOps]_vars

\* C15, its case: a withdrawal from a mint in use that holds harvested fees
\* and a withdraw authority
WithdrawalsNotImplementedReached ==
    /\ last.op = "WithdrawWithheldTokensFromMint"
    /\ last.result = "NotImplemented"
    /\ mint.is_initialized
    /\ mint.withdraw_withheld_authority # NoKey
    /\ mint.withheld_amount > 0

----------------------------------------------------------------------------
(* The two slots against the record of the accepted calls *)

\* the epochs before C in which a SetTransferFee was accepted
UpdatedBefore(C) == {x \in 0..(C - 1) : history.set[x] # NoRate}

\* the rate a record of every accepted call selects at the current epoch C:
\* that of the latest SetTransferFee accepted in an epoch before C, or that of
\* the initialization
Reference(C) ==
    IF UpdatedBefore(C) = {} THEN history.init
    ELSE history.set[CHOOSE x \in UpdatedBefore(C) : \A y \in UpdatedBefore(C) : y <= x]

\* C16 (as claimed): after an accepted initialization the rate the two slots
\* select at the current epoch is the rate the record selects.
TwoSlotAgreesWithHistory ==
    initEpoch >= 0 => ActiveBefore(epoch) = Reference(epoch)

\* C16 (amended): the same, except at the maximum of the epoch type, where a
\* SetTransferFee accepted in that very epoch is selected at once.
TwoSlotAgreesBelowMaximum ==
    initEpoch >= 0 =>
        ActiveBefore(epoch) =
            IF epoch = MaxEpoch /\ history.set[epoch] # NoRate
            THEN history.set[epoch]
            ELSE Reference(epoch)

\* C16, its case: an update accepted in an earlier epoch is selected, another
\* rate than the initial one, while a third is pending
TwoSlotAgreesReached ==
    /\ initEpoch >= 0
    /\ epoch < MaxEpoch
    /\ UpdatedBefore(epoch) # {}
    /\ history.set[epoch] # NoRate
    /\ Reference(epoch) # history.init
    /\ Reference(epoch) # history.set[epoch]
    /\ ActiveBefore(epoch) = Reference(epoch)

\* C17: the newer slot is at most one epoch ahead of the clock and the older
\* slot is not ahead of it.
OneChangeInFlight ==
    mint.has_extension =>
        /\ mint.newer_transfer_fee.epoch <= epoch + 1
        /\ mint.older_transfer_fee.epoch <= epoch

\* C17, its case: the older slot became active in the current epoch and an
\* update is pending for the next
OneChangeInFlightReached ==
    /\ SetFeeAccepted
    /\ epoch > 0
    /\ mint.older_transfer_fee.epoch = epoch
    /\ mint.newer_transfer_fee.epoch = epoch + 1
    /\ Rate(mint.older_transfer_fee) # Rate(mint.newer_transfer_fee)

----------------------------------------------------------------------------
(* Harvest: order, repetition, failures *)

\* the mint's withheld amount and the holders a harvest of the batch leaves
HarvestOutcome(m, accts, batch) ==
    LET r == harvest_withheld_tokens_to_mint(m, accts, batch)
    IN <<r.withheld_amount, r.accounts>>

\* C18 (as claimed): when the mint's withheld amount plus those of the valid
\* holders of the batch does not overflow, every batch listing the same
\* references, in any order and with any repetition, leaves the same mint and
\* holders, and harvesting the batch again changes nothing.
HarvestOrderIndependent ==
    [][HarvestCalled =>
        LET batch == last'.batch IN
            /\ Harvest(batch)
            /\ mint.withheld_amount + SumOver(ValidIn(batch), Withheld) <= MaxAmount
            => /\ \A other \in Batches :
                     Range(other) = Range(batch) =>
                         HarvestOutcome(mint, accounts, other)
                             = <<mint'.withheld_amount, accounts'>>
               /\ HarvestOutcome(mint', accounts', batch)
                     = <<mint'.withheld_amount, accounts'>>]_vars

\* C19 (as claimed): on a mint whose fee config is open, a harvest in which no
\* addition overflows returns Ok, and has logged exactly the references that
\* are not harvestable, the mint account itself included.
HarvestFailsOnlyOnOverflow ==
    [][HarvestCalled =>
        LET batch == last'.batch IN
            /\ Harvest(batch)
            /\ mint.is_initialized /\ mint.has_extension
            /\ last'.result # "Overflow"
            => /\ last'.result = "Ok"
               /\ Range(last'.log) = {i \in 1..Len(batch) : ~Harvestable(batch[i])}]_vars

----------------------------------------------------------------------------
(* Frame *)

\* the two authorities of a mint buffer
Authorities(m) == <<m.transfer_fee_config_authority, m.withdraw_withheld_authority>>

\* C20: a SetTransferFee, accepted or not, changes nothing but the two slots; a
\* harvest changes nothing of the mint but its withheld amount, which it never
\* lowers; and the two authorities never change once the extension holds them.
FrameOfSetFeeAndHarvest ==
    [][/\ SetFeeCalled =>
             /\ mint' = [mint EXCEPT !.older_transfer_fee = mint'.older_transfer_fee,
                                     !.newer_transfer_fee = mint'.newer_transfer_fee]
             /\ accounts' = accounts
       /\ HarvestCalled =>
             /\ mint' = [mint EXCEPT !.withheld_amount = mint'.withheld_amount]
             /\ mint'.withheld_amount >= mint.withheld_amount
       /\ mint.has_extension => Authorities(mint') = Authorities(mint)]_vars

\* C20, its case: an update was accepted on a mint that holds harvested fees
\* and both authorities, the holder it was harvested from at 0
FrameReached ==
    /\ SetFeeAccepted
    /\ mint.withheld_amount > 0
    /\ mint.transfer_fee_config_authority # NoKey
    /\ mint.withdraw_withheld_authority # NoKey
    /\ Rate(mint.older_transfer_fee) # Rate(mint.newer_transfer_fee)
    /\ \E h \in Holders : Harvestable(h) /\ accounts[h].withheld_amount = 0

====
